---- MODULE Spec2Model ----
(***************************************************************************)
(* Model of the speaker classification / e-mail generation pipeline:       *)
(*   utils/company_classifier.py  CompanyClassifier (cache + remote calls)  *)
(*   utils/email_generator.py     EmailGenerator                            *)
(*   utils/data_processor.py      DataProcessor (batched orchestration)     *)
(*                                                                         *)
(* Strings whose content the code inspects (company names, category        *)
(* tokens) are sequences of one-character strings, so that strip(),        *)
(* lower() and upper() are computed character by character.  Text that the *)
(* code treats as opaque (generated subject/body, research text) is a tag. *)
(*                                                                         *)
(* Concurrency is asyncio's: one task runs at a time and keeps running     *)
(* until it awaits a remote call; the tasks of a batch are started in      *)
(* order by gather() before any remote call can complete.                  *)
(***************************************************************************)
EXTENDS Integers, Sequences, FiniteSets, TLC

\* ---------------------------------------------------------------- bounds
\* Longest input table that is explored (roster 3).
MaxInput == 12
\* Longest input table of the rosters 1 and 2.
MaxMixed == 6
\* Most speakers of one batch that need remote calls when a client is configured.
MaxConcurrent == 2
\* The same, over the whole run, for the runs that start without a parsable
\* cache file.
MaxLiveFresh == 1
\* The same, over the whole run, for the runs that are given a limit (argument
\* or environment).
MaxLiveLimited == 0
\* Most raising classification or generation calls and failing cache writes in
\* one run (failing research calls and malformed responses are not limited).
MaxFaults == 2
\* Largest explicit max_speakers argument / MAX_SPEAKERS environment setting.
MaxLimit == 2

\* ------------------------------------------------------ program constants
\* batch_size in DataProcessor._process_speakers
batch_size == 5
\* default of Config.MAX_SPEAKERS
DefaultMaxSpeakers == 10

None == "None"
\* an optional int: <<>> is None, <<n>> is n
NoInt == <<>>

\* ------------------------------------------------------------ characters
LowerChars == <<"a","b","c","d","e","f","g","h","i","j","k","l","m",
                "n","o","p","q","r","s","t","u","v","w","x","y","z">>
UpperChars == <<"A","B","C","D","E","F","G","H","I","J","K","L","M",
                "N","O","P","Q","R","S","T","U","V","W","X","Y","Z">>
Whitespace == {" "}

LowerOf == [c \in {UpperChars[n] : n \in 1..26} |->
              LowerChars[CHOOSE n \in 1..26 : UpperChars[n] = c]]
UpperOf == [c \in {LowerChars[n] : n \in 1..26} |->
              UpperChars[CHOOSE n \in 1..26 : LowerChars[n] = c]]

\* str.lower() on one character
ToLower(c) == IF c \in DOMAIN LowerOf THEN LowerOf[c] ELSE c

\* str.upper() on one character
ToUpper(c) == IF c \in DOMAIN UpperOf THEN UpperOf[c] ELSE c

Lower(s) == [n \in 1..Len(s) |-> ToLower(s[n])]
Upper(s) == [n \in 1..Len(s) |-> ToUpper(s[n])]

RECURSIVE LStrip(_)
LStrip(s) == IF s # <<>> /\ Head(s) \in Whitespace THEN LStrip(Tail(s)) ELSE s

RECURSIVE RStrip(_)
RStrip(s) ==
    IF s # <<>> /\ s[Len(s)] \in Whitespace
    THEN RStrip(SubSeq(s, 1, Len(s) - 1))
    ELSE s

\* str.strip()
Strip(s) == RStrip(LStrip(s))

\* company_name.strip().lower()
Normalize(s) == Lower(Strip(s))

\* ------------------------------------------------------- CompanyCategory
Categories == {"BUILDER", "OWNER", "PARTNER", "COMPETITOR", "OTHER"}

\* CompanyCategory.<member>.value
Value(c) ==
    CASE c = "BUILDER"    -> "Builder"
      [] c = "OWNER"      -> "Owner"
      [] c = "PARTNER"    -> "Partner"
      [] c = "COMPETITOR" -> "Competitor"
      [] c = "OTHER"      -> "Other"

\* as FromValue, handing back the cached string itself
FromValueUnchecked(v) == v

\* CompanyCategory(value): the member with that value, None for the ValueError
FromValue(v) ==
    IF \E c \in Categories : Value(c) = v
    THEN CHOOSE c \in Categories : Value(c) = v
    ELSE None

\* ---------------------------------------------------- classification cache
\* The cache file on disk: absent, unparsable, or a JSON object.
EmptyMap == [k \in {} |-> None]
Absent == [state |-> "absent", data |-> EmptyMap]
Malformed == [state |-> "malformed", data |-> EmptyMap]
Object(c) == [state |-> "object", data |-> c]

\* as LoadCache, starting from a built-in table when the file cannot be used
LoadCacheSeeded(f) ==
    IF f.state = "object" THEN f.data
    ELSE [k \in {<<"d", "r">>} |-> Value("COMPETITOR")]

\* CompanyClassifier._load_cache
LoadCache(f) == IF f.state = "object" THEN f.data ELSE EmptyMap

\* CompanyClassifier._get_cached_classification
GetCachedClassification(c, company_name) ==
    LET normalized_name == Normalize(company_name)
    IN IF normalized_name \in DOMAIN c THEN FromValue(c[normalized_name]) ELSE None

\* as CacheStore, leaving a key that is already there as it is
CacheStoreKeepsFirst(c, company_name, category) ==
    LET normalized_name == Normalize(company_name)
    IN [k \in DOMAIN c \cup {normalized_name} |->
          IF k \in DOMAIN c THEN c[k] ELSE Value(category)]

\* the dict update in CompanyClassifier._cache_classification
CacheStore(c, company_name, category) ==
    LET normalized_name == Normalize(company_name)
    IN [k \in DOMAIN c \cup {normalized_name} |->
          IF k = normalized_name THEN Value(category) ELSE c[k]]

\* CompanyClassifier._save_cache: the file after the write, per outcome
SaveOutcomes == {"ok", "fail", "partial"}
SaveCache(f, c, outcome) ==
    CASE outcome = "ok"      -> Object(c)
      [] outcome = "fail"    -> f
      [] outcome = "partial" -> Malformed

\* ------------------------------------------- structured classification call
T_BUILDER    == <<"B","U","I","L","D","E","R">>
T_OWNER      == <<"O","W","N","E","R">>
T_PARTNER    == <<"P","A","R","T","N","E","R">>
T_COMPETITOR == <<"C","O","M","P","E","T","I","T","O","R">>
T_OTHER      == <<"O","T","H","E","R">>

\* category_map.get(category): None when the key is not in the map
category_map(tok) ==
    CASE tok = T_BUILDER    -> "BUILDER"
      [] tok = T_OWNER      -> "OWNER"
      [] tok = T_PARTNER    -> "PARTNER"
      [] tok = T_COMPETITOR -> "COMPETITOR"
      [] tok = T_OTHER      -> "OTHER"
      [] OTHER              -> None

\* What the remote structured-classification call can do: raise, return text
\* that is no JSON, or return a JSON object whose "category" is a token (None:
\* the key is missing) and whose "confidence" is a number or not.
\* The tokens explored: the label "Builder", lower-case "competitor", "OTHER"
\* and the unknown "Drone".
Tokens == { <<"B","u","i","l","d","e","r">>,
            <<"c","o","m","p","e","t","i","t","o","r">>, T_OTHER,
            <<"D","r","o","n","e">> }
Responses ==
    {[kind |-> "raise", category |-> <<>>, conf_ok |-> TRUE],
     [kind |-> "badjson", category |-> <<>>, conf_ok |-> TRUE],
     [kind |-> "json", category |-> <<>>, conf_ok |-> TRUE],
     [kind |-> "json", category |-> T_BUILDER, conf_ok |-> FALSE]}
    \cup {[kind |-> "json", category |-> t, conf_ok |-> TRUE] : t \in Tokens}

\* the call raised instead of returning a response
IsFault(resp) == resp.kind = "raise"

\* CompanyClassifier._classify_company_with_research, from the response on:
\* json.loads, .get("category", "OTHER").upper(), category_map.get(.., OTHER),
\* the f"{confidence:.2f}" log line, and the except branch returning OTHER.
ClassifyWithResearch(resp) ==
    IF resp.kind # "json" THEN "OTHER"
    ELSE LET category == Upper(IF resp.category = <<>> THEN T_OTHER ELSE resp.category)
             final_category == IF category_map(category) = None THEN "OTHER"
                               ELSE category_map(category)
         IN IF resp.conf_ok THEN final_category ELSE "OTHER"

\* the context string _research_company returns
Researched(company_name) == [kind |-> "researched", about |-> company_name]
LimitedInfo(company_name) == [kind |-> "limited", about |-> company_name]
NoInfo == [kind |-> None, about |-> <<>>]

\* ---------------------------------------------------------- e-mail content
NASubject == "N/A - Competitor"
ErrSubject == "Error generating email"
GenSubject == "generated subject"
Body(kind, name, company) == [kind |-> kind, name |-> name, company |-> company]
NoBody == Body(None, <<>>, <<>>)
NABody == Body("N/A - Competitor", <<>>, <<>>)
ErrBody == Body("Error generating email content", <<>>, <<>>)
GenBody == Body("generated body", <<>>, <<>>)

\* EmailGenerator._generate_fallback_email
FallbackEmail(request) ==
    IF request.company_category = "COMPETITOR"
    THEN [subject |-> "Conference Connection",
          body |-> Body("fallback connect", request.speaker_name, <<>>)]
    ELSE [subject |-> "DroneDeploy Demo at Booth #42",
          body |-> Body("fallback demo", request.speaker_name, request.company_name)]

\* EmailGenerationRequest built in _process_single_speaker
Request(sp, category) ==
    [speaker_name |-> sp.name, speaker_title |-> sp.title,
     company_name |-> sp.company, company_category |-> category]

\* as SubjectText, with the error sentinel in place of the fallback subject
SubjectTextSentinel(request, ok) == IF ok THEN GenSubject ELSE ErrSubject

\* _generate_subject / _generate_body: the text each returns
SubjectText(request, ok) == IF ok THEN GenSubject ELSE FallbackEmail(request).subject
BodyText(request, ok) == IF ok THEN GenBody ELSE FallbackEmail(request).body

\* ------------------------------------------------------------- speakers
\* Speaker(name=..., title=..., company=...): the optional fields start unset
Speaker(name, title, company) ==
    [name |-> name, title |-> title, company |-> company,
     company_category |-> None, email_subject |-> None, email_body |-> NoBody]

\* the competitor branch of _process_single_speaker
SkipCompetitor(sp) ==
    [sp EXCEPT !.email_subject = NASubject, !.email_body = NABody]

\* as ErrorOut, leaving the category the classifier returned
ErrorOutKeepsCategory(sp) ==
    [sp EXCEPT !.email_subject = ErrSubject, !.email_body = ErrBody]

\* the except branch of _process_single_speaker
ErrorOut(sp) ==
    [sp EXCEPT !.company_category = "OTHER", !.email_subject = ErrSubject,
               !.email_body = ErrBody]

\* ------------------------------------------------------------ input tables
Ab  == <<"A","b">>
abS == <<"a","b"," ">>
AB  == <<"A","B">>
Dr  == <<"D","r">>
Spellings == <<Ab, abS, AB>>

\* The company of row p in roster r.  Roster 1: two speakers of the "ab"
\* company at the head of every batch ("Ab", then "ab "), the rest from "Dr";
\* roster 2: every speaker from the "ab" company, in its three spellings;
\* roster 3: every speaker from "Dr", its third row a repetition of the first.
Rosters == {1, 2, 3}
RosterCompany(r, p) ==
    CASE r = 1 -> IF p % batch_size \in {1, 2} THEN Spellings[p % batch_size] ELSE Dr
      [] r = 2 -> Spellings[((p - 1) % 3) + 1]
      [] r = 3 -> Dr

Row(r, p) == [name |-> <<"S", LowerChars[IF r = 3 /\ p = 3 THEN 1 ELSE p]>>,
              title |-> <<"T">>, company |-> RosterCompany(r, p)]
\* three rows, the second equal to the first up to case and surrounding blanks
DedupTable ==
    << [name |-> <<"A">>, title |-> <<"T">>, company |-> <<"C">>],
       [name |-> <<"a">>, title |-> <<" ", "t", " ">>, company |-> <<"c">>],
       [name |-> <<"B">>, title |-> <<"T", "2">>, company |-> <<"C", "2">>] >>
Tables == {[p \in 1..n |-> Row(r, p)] : n \in 0..MaxMixed, r \in {1, 2}}
          \cup {[p \in 1..n |-> Row(3, p)] : n \in 0..MaxInput}
          \cup {DedupTable}

\* cache files a run can start with
KnownCompetitors == {Normalize(Dr), <<"c">>, <<"c", "2">>}
StandardFile == Object([k \in KnownCompetitors |-> Value("COMPETITOR")])
\* a file that also knows the "ab" company, as a builder
BuilderFile == Object([k \in {Normalize(Dr), Normalize(Ab)} |->
                         IF k = Normalize(Dr) THEN Value("COMPETITOR")
                         ELSE Value("BUILDER")])
\* a file whose value for the "ab" company is the label of no category
DriftedFile == Object([k \in {Normalize(Dr), Normalize(Ab)} |->
                         IF k = Normalize(Dr) THEN Value("COMPETITOR")
                         ELSE "Contractor"])
CacheFiles == {Absent, Malformed, StandardFile, BuilderFile, DriftedFile}

\* df.drop_duplicates(subset=[name, title, company], keep="first")
RECURSIVE DropDuplicates(_)
DropDuplicates(rows) ==
    IF rows = <<>> THEN <<>>
    ELSE LET init == DropDuplicates(SubSeq(rows, 1, Len(rows) - 1))
             last == rows[Len(rows)]
         IN IF \E n \in 1..Len(init) : init[n] = last THEN init ELSE Append(init, last)

\* DataProcessor._read_csv_file: deduplicate, then build stripped Speakers
ReadCsvFile(table) ==
    LET df_clean == DropDuplicates(table)
    IN [n \in 1..Len(df_clean) |->
          Speaker(Strip(df_clean[n].name), Strip(df_clean[n].title),
                  Strip(df_clean[n].company))]

\* Python's list[:k]
SliceTo(s, k) ==
    IF k >= 0 THEN SubSeq(s, 1, IF k < Len(s) THEN k ELSE Len(s))
    ELSE SubSeq(s, 1, IF Len(s) + k > 0 THEN Len(s) + k ELSE 0)

\* Config.MAX_SPEAKERS = int(os.getenv("MAX_SPEAKERS", 10))
ConfigMaxSpeakers(env) == IF env = NoInt THEN DefaultMaxSpeakers ELSE env[1]

\* the limit process_speaker_list applies
LimitIgnoresArgument(max_speakers, env) == ConfigMaxSpeakers(env)
EffectiveLimit(max_speakers, env) ==
    IF max_speakers = NoInt THEN ConfigMaxSpeakers(env) ELSE max_speakers[1]

\* speakers = speakers[:max_speakers] when len(speakers) > max_speakers
TruncateOffByOne(read, lim) == IF Len(read) > lim THEN SliceTo(read, lim + 1) ELSE read
Truncate(read, lim) == IF Len(read) > lim THEN SliceTo(read, lim) ELSE read

\* the row _write_output builds for one speaker
OutputRow(sp) ==
    [name |-> sp.name, title |-> sp.title, company |-> sp.company,
     category |-> IF sp.company_category # None THEN Value(sp.company_category)
                  ELSE "Unknown",
     subject |-> IF sp.email_subject # None THEN sp.email_subject ELSE "N/A",
     body |-> IF sp.email_body # NoBody THEN sp.email_body ELSE Body("N/A", <<>>, <<>>)]

\* ------------------------------------------------------------------ state
VARIABLES
    hasKey,        \* Config.OPENAI_API_KEY is set: both services hold a client
    env_max,       \* the MAX_SPEAKERS environment setting, NoInt when unset
    columns,       \* the columns _find_column finds in the input table of the run
    file,          \* in/company_classifications.json on disk
    cache,         \* CompanyClassifier.classification_cache
    phase,         \* process_speaker_list: "idle", "gather", "sleep", "done",
                   \*   "failed" (it raised); "rejected": the endpoint raised
                   \*   before calling it
    table,         \* the input table of the run
    max_speakers,  \* the max_speakers argument of the run
    speakers,      \* the Speaker objects after reading and truncating
    warned,        \* the truncation warning was logged
    i,             \* the batch offset of _process_speakers
    pc,            \* per speaker task: "unstarted", "ready", "research",
                   \*   "classify", "gen", "returned"
    loc,           \* per speaker task: company_info and the gathered e-mail parts
    result,        \* per speaker task: what gather() holds for it
    processed,     \* processed_speakers, as indices into speakers
    output,        \* the written output table
    faults,        \* raising calls and failing cache writes so far
    h              \* per speaker: what its unit of work has done (history)

vars == <<hasKey, env_max, columns, file, cache, phase, table, max_speakers, speakers, warned,
          i, pc, loc, result, processed, output, faults, h>>

LocInit == [company_info |-> NoInfo, subject |-> None, body |-> NoBody, inflight |-> {}]
HInit == [calls |-> {}, prior |-> {}, hit |-> FALSE, ret |-> None, gen |-> FALSE,
          cls_raised |-> FALSE, raised |-> FALSE, term |-> {}, failed |-> {},
          drifted |-> FALSE]

N == Len(speakers)
\* speakers[i : i + batch_size], as indices
Batch(i0) == {k \in 1..N : i0 < k /\ k <= i0 + batch_size}
\* as Ready, over speakers[: i + batch_size]
ReadyFromStart(i0) == [k \in 1..N |-> IF k <= i0 + batch_size THEN "ready" ELSE pc[k]]
\* the tasks gather() creates for the batch at offset i0
Ready(i0) == [k \in 1..N |-> IF k \in Batch(i0) THEN "ready" ELSE pc[k]]

\* speakers of a list that are not cached as competitors: they await remote calls
LiveSet(sps, c) ==
    {k \in 1..Len(sps) : GetCachedClassification(c, sps[k].company) # "COMPETITOR"}
Live(sps, c) == Cardinality(LiveSet(sps, c))
\* at most one such speaker: what is explored, with a client, of the runs on
\* a cache file that has an entry for the "ab" company
Single(sps, c) == \A j, k \in LiveSet(sps, c) : j = k
\* the most such speakers in one batch
Concurrent(sps, c) ==
    LET InBatch(b) == {k \in LiveSet(sps, c) : (k - 1) \div batch_size = b}
    IN IF LiveSet(sps, c) = {} THEN 0
       ELSE CHOOSE m \in 1..batch_size :
              /\ \E b \in 0..Len(sps) : Cardinality(InBatch(b)) = m
              /\ \A b \in 0..Len(sps) : Cardinality(InBatch(b)) <= m

\* DataProcessor._write_output
Unwritten == [written |-> FALSE, rows |-> <<>>]
\* as WriteOutput, writing no table when there is no speaker
WriteOutputSkipsEmpty(procd, sps) ==
    IF procd = <<>> THEN Unwritten
    ELSE [written |-> TRUE, rows |-> [n \in 1..Len(procd) |-> OutputRow(sps[procd[n]])]]
WriteOutput(procd, sps) ==
    [written |-> TRUE, rows |-> [n \in 1..Len(procd) |-> OutputRow(sps[procd[n]])]]

Init ==
    /\ hasKey \in BOOLEAN
    /\ env_max \in {NoInt, <<MaxLimit>>}
    /\ columns = {}
    /\ file \in CacheFiles
    /\ cache = LoadCache(file)
    /\ phase = "idle"
    /\ table = <<>>
    /\ max_speakers = NoInt
    /\ speakers = <<>>
    /\ warned = FALSE
    /\ i = 0
    /\ pc = <<>>
    /\ loc = <<>>
    /\ result = <<>>
    /\ processed = <<>>
    /\ output = Unwritten
    /\ faults = 0
    /\ h = <<>>

\* ------------------------------------------------------- process_speaker_list
\* _read_csv_file: the three columns it looks for, and the headers a table
\* can come with (all of them found, or one of them not)
RequiredColumns == {"name", "title", "company"}
ColumnSets == {RequiredColumns} \cup {RequiredColumns \ {c} : c \in RequiredColumns}
\* as HasRequiredColumns, content with any of the columns
HasAnyColumn(cols) == cols # {}
\* all([name_col, title_col, company_col])
HasRequiredColumns(cols) == RequiredColumns \subseteq cols

\* DataProcessor.process_speaker_list up to the first await: read, truncate,
\* then _process_speakers launches the first batch (or, for an empty list,
\* returns at once and the output is written).
ProcessSpeakerList(tb, cols, ms) ==
    /\ phase = "idle"
    /\ table' = tb
    /\ columns' = cols
    /\ max_speakers' = ms
    /\ \/ /\ ~HasRequiredColumns(cols)
          /\ phase' = "failed"
          /\ UNCHANGED <<speakers, warned, i, pc, loc, result, h, processed, output>>
       \/ /\ HasRequiredColumns(cols)
          /\ LET read == ReadCsvFile(tb)
                 lim == EffectiveLimit(ms, env_max)
                 sps == Truncate(read, lim)
             IN /\ hasKey /\ file.state # "object" => Live(sps, cache) <= MaxLiveFresh
                /\ hasKey /\ file \in {BuilderFile, DriftedFile} => Single(sps, cache)
                /\ hasKey /\ (ms # NoInt \/ env_max # NoInt)
                     => Live(sps, cache) <= MaxLiveLimited
                /\ hasKey => Concurrent(sps, cache) <= MaxConcurrent
                /\ warned' = (Len(read) > lim)
                /\ speakers' = sps
                /\ i' = 0
                /\ pc' = [k \in 1..Len(sps) |->
                            IF k <= batch_size THEN "ready" ELSE "unstarted"]
                /\ loc' = [k \in 1..Len(sps) |-> LocInit]
                /\ result' = [k \in 1..Len(sps) |-> "pending"]
                /\ h' = [k \in 1..Len(sps) |-> HInit]
                /\ processed' = <<>>
                /\ IF Len(sps) = 0
                   THEN phase' = "done" /\ output' = WriteOutput(<<>>, sps)
                   ELSE phase' = "gather" /\ output' = output
    /\ UNCHANGED <<hasKey, env_max, file, cache, faults>>

\* --------------------------------------------------- _process_single_speaker
\* What one step of a task leaves behind: the speaker, where the task is next
\* ("gen": awaiting the two generation calls, "returned": the task is done),
\* what gather() holds for it, and what the step did.
Step(sp, to, res, gen, raised, term) ==
    [speaker |-> sp, to |-> to, result |-> res, gen |-> gen, raised |-> raised,
     term |-> term]

\* as CallGenerator, degrading to the fallback e-mail without a client
CallGeneratorFallsBack(sp, client) ==
    IF client THEN Step(sp, "gen", "pending", TRUE, FALSE, {})
    ELSE LET fallback == FallbackEmail(Request(sp, sp.company_category))
         IN Step([sp EXCEPT !.email_subject = fallback.subject,
                            !.email_body = fallback.body],
                 "returned", "speaker", TRUE, FALSE, {"EmailGenerated"})

\* as CallGenerator, with the exception escaping the task
CallGeneratorUncaught(sp, client) ==
    IF client THEN Step(sp, "gen", "pending", TRUE, FALSE, {})
    ELSE Step(sp, "returned", "exception", TRUE, TRUE, {})

\* generate_email: raises without a client, else starts both generation calls;
\* a raise lands in the except branch of _process_single_speaker.
CallGenerator(sp, client) ==
    IF client THEN Step(sp, "gen", "pending", TRUE, FALSE, {})
    ELSE Step(ErrorOut(sp), "returned", "speaker", TRUE, TRUE, {"ErroredOut"})

\* as AfterClassification, with the competitor branch falling through
AfterClassificationFallThrough(sp, category, client) ==
    LET sp1 == [sp EXCEPT !.company_category = category]
    IN IF category = "COMPETITOR"
       THEN LET g == CallGenerator(SkipCompetitor(sp1), client)
            IN [g EXCEPT !.term = @ \cup {"SkippedAsCompetitor"}]
       ELSE CallGenerator(sp1, client)

\* _process_single_speaker from the return of classify_company to its next
\* await or return
AfterClassification(sp, category, client) ==
    LET sp1 == [sp EXCEPT !.company_category = category]
    IN IF category = "COMPETITOR"
       THEN Step(SkipCompetitor(sp1), "returned", "speaker", FALSE, FALSE,
                 {"SkippedAsCompetitor"})
       ELSE CallGenerator(sp1, client)

\* _process_single_speaker after generate_email returned subject and body
EmailDone(sp, subject, body) ==
    Step([sp EXCEPT !.email_subject = subject, !.email_body = body],
         "returned", "speaker", TRUE, FALSE, {"EmailGenerated"})

\* as Apply, with generate_email issuing the subject call alone
ApplySubjectFirst(k, a, hk) ==
    /\ speakers' = [speakers EXCEPT ![k] = a.speaker]
    /\ pc' = [pc EXCEPT ![k] = a.to]
    /\ result' = [result EXCEPT ![k] = a.result]
    /\ loc' = [loc EXCEPT ![k] =
                 IF a.to = "gen" /\ pc[k] # "gen"
                 THEN [LocInit EXCEPT !.inflight = {"subject"}]
                 ELSE LocInit]
    /\ h' = [h EXCEPT ![k] =
               [hk EXCEPT !.gen = @ \/ a.gen,
                          !.raised = @ \/ a.raised,
                          !.term = @ \cup a.term,
                          !.calls = @ \cup (IF a.to = "gen" THEN {"subject"} ELSE {})]]

\* the state change of task k for a step a, with hk its history so far
Apply(k, a, hk) ==
    /\ speakers' = [speakers EXCEPT ![k] = a.speaker]
    /\ pc' = [pc EXCEPT ![k] = a.to]
    /\ result' = [result EXCEPT ![k] = a.result]
    /\ loc' = [loc EXCEPT ![k] =
                 IF a.to = "gen" /\ pc[k] # "gen"
                 THEN [LocInit EXCEPT !.inflight = {"subject", "body"}]
                 ELSE LocInit]
    /\ h' = [h EXCEPT ![k] =
               [hk EXCEPT !.gen = @ \/ a.gen,
                          !.raised = @ \/ a.raised,
                          !.term = @ \cup a.term,
                          !.calls = @ \cup (IF a.to = "gen" THEN {"subject", "body"}
                                            ELSE {})]]

\* what the classify_company calls that have returned so far, for names equal
\* to that of speaker k after normalization, were given and returned
Prior(k) ==
    {[name |-> speakers[j].company, category |-> h[j].ret] :
        j \in {j \in 1..N : /\ j # k
                            /\ h[j].ret # None
                            /\ Normalize(speakers[j].company)
                                 = Normalize(speakers[k].company)}}

\* the cache holds for the name a value that is the label of no category
Drifted(c, company_name) ==
    /\ Normalize(company_name) \in DOMAIN c
    /\ c[Normalize(company_name)] \notin {Value(category) : category \in Categories}

AllStarted == \A k \in Batch(i) : pc[k] # "ready"

\* the number of failures an environment choice adds
Cost(failed) == IF failed THEN 1 ELSE 0

\* as StoreResult, dropping the entry again when the file write fails
StoreResultRollsBack(company, category, w) ==
    /\ cache' = IF w = "ok" THEN CacheStore(cache, company, category) ELSE cache
    /\ file' = SaveCache(file, cache', w)

\* as StoreResult, with the category returned and the store left out
StoreResultSkipped(company, category, w) ==
    /\ cache' = cache
    /\ file' = file

\* classify_company lines 100-104: store the category, rewrite the file
StoreResult(company, category, w) ==
    /\ cache' = CacheStore(cache, company, category)
    /\ file' = SaveCache(file, cache', w)

\* The first step of task k: classify_company's cache lookup, and whatever
\* follows without suspending.  Without a client no remote call is ever
\* issued: self.client.responses / self.client.chat raise on None, research
\* degrades to the limited-information string, classification to OTHER, and
\* the task runs on to its end.
TaskStart(k) ==
    /\ phase = "gather"
    /\ pc[k] = "ready"
    /\ \A j \in Batch(i) : j < k => pc[j] # "ready"
    /\ LET sp == speakers[k]
           cached == GetCachedClassification(cache, sp.company)
           h0 == [h[k] EXCEPT !.prior = Prior(k), !.drifted = Drifted(cache, sp.company)]
       IN \/ /\ cached # None
             /\ Apply(k, AfterClassification(sp, cached, hasKey),
                      [h0 EXCEPT !.hit = TRUE, !.ret = cached])
             /\ UNCHANGED <<cache, file, faults>>
          \/ /\ cached = None
             /\ ~hasKey
             /\ \E w \in SaveOutcomes :
                  LET category == ClassifyWithResearch(
                                    [kind |-> "raise", category |-> <<>>, conf_ok |-> TRUE])
                  IN /\ faults + Cost(w # "ok") <= MaxFaults
                     /\ faults' = faults + Cost(w # "ok")
                     /\ StoreResult(sp.company, category, w)
                     /\ Apply(k, AfterClassification(sp, category, hasKey),
                              [h0 EXCEPT !.ret = category, !.cls_raised = TRUE])
          \/ /\ cached = None
             /\ hasKey
             /\ pc' = [pc EXCEPT ![k] = "research"]
             /\ h' = [h EXCEPT ![k] = [h0 EXCEPT !.calls = @ \cup {"research"}]]
             /\ UNCHANGED <<cache, file, faults, speakers, loc, result>>
    /\ UNCHANGED <<hasKey, env_max, columns, phase, table, max_speakers, warned, i, processed,
                   output>>

\* as ResearchReturns, with a failed research call ending the classification:
\* OTHER is stored and returned, and no structured-classification call is made
ResearchReturnsAborting(k, ok) ==
    /\ phase = "gather"
    /\ pc[k] = "research"
    /\ AllStarted
    /\ IF ok
       THEN /\ pc' = [pc EXCEPT ![k] = "classify"]
            /\ loc' = [loc EXCEPT ![k].company_info = Researched(speakers[k].company)]
            /\ h' = [h EXCEPT ![k].calls = @ \cup {"classify"}]
            /\ UNCHANGED <<file, cache, speakers, result>>
       ELSE /\ StoreResult(speakers[k].company, "OTHER", "ok")
            /\ Apply(k, AfterClassification(speakers[k], "OTHER", hasKey),
                     [h[k] EXCEPT !.ret = "OTHER"])
    /\ UNCHANGED <<hasKey, env_max, columns, phase, table, max_speakers, warned, i, processed,
                   output, faults>>

\* The research call of task k returns or raises; _research_company hands its
\* text or the limited-information string to _classify_company_with_research,
\* which issues the structured-classification call.
ResearchReturns(k, ok) ==
    /\ phase = "gather"
    /\ pc[k] = "research"
    /\ AllStarted
    /\ pc' = [pc EXCEPT ![k] = "classify"]
    /\ loc' = [loc EXCEPT ![k].company_info =
                 IF ok THEN Researched(speakers[k].company)
                 ELSE LimitedInfo(speakers[k].company)]
    /\ h' = [h EXCEPT ![k].calls = @ \cup {"classify"}]
    /\ UNCHANGED <<hasKey, env_max, columns, file, cache, phase, table, max_speakers, speakers,
                   warned, i, result, processed, output, faults>>

\* The structured-classification call of task k returns resp; classify_company
\* stores the category (the file write ends as w) and returns it to
\* _process_single_speaker, which runs on to its next await or its return.
ClassifyReturns(k, resp, w) ==
    /\ phase = "gather"
    /\ pc[k] = "classify"
    /\ AllStarted
    /\ LET category == ClassifyWithResearch(resp)
           cost == Cost(IsFault(resp)) + Cost(w # "ok")
       IN /\ faults + cost <= MaxFaults
          /\ faults' = faults + cost
          /\ StoreResult(speakers[k].company, category, w)
          /\ Apply(k, AfterClassification(speakers[k], category, hasKey),
                   [h[k] EXCEPT !.ret = category, !.cls_raised = (resp.kind = "raise")])
    /\ UNCHANGED <<hasKey, env_max, columns, phase, table, max_speakers, warned, i, processed,
                   output>>

\* One of the two generation calls of task k returns (ok) or raises; when it
\* is the second, gather() hands both texts to generate_email and
\* _process_single_speaker records them and returns.
PartReturns(k, part, ok) ==
    /\ phase = "gather"
    /\ pc[k] = "gen"
    /\ AllStarted
    /\ part \in loc[k].inflight
    /\ faults + Cost(~ok) <= MaxFaults
    /\ faults' = faults + Cost(~ok)
    /\ LET request == Request(speakers[k], speakers[k].company_category)
           subject == IF part = "subject" THEN SubjectText(request, ok) ELSE loc[k].subject
           body == IF part = "body" THEN BodyText(request, ok) ELSE loc[k].body
           hk == [h[k] EXCEPT !.failed = @ \cup (IF ok THEN {} ELSE {part})]
       IN IF loc[k].inflight = {part}
          THEN Apply(k, EmailDone(speakers[k], subject, body), hk)
          ELSE /\ loc' = [loc EXCEPT ![k].subject = subject, ![k].body = body,
                                     ![k].inflight = @ \ {part}]
               /\ h' = [h EXCEPT ![k] = hk]
               /\ UNCHANGED <<speakers, pc, result>>
    /\ UNCHANGED <<hasKey, env_max, columns, file, cache, phase, table, max_speakers, warned, i,
                   processed, output>>

SubjectReturns(k, ok) == PartReturns(k, "subject", ok)
BodyReturns(k, ok) == PartReturns(k, "body", ok)

\* ---------------------------------------------------------- _process_speakers
\* as Settled, waiting for the speakers of every batch
SettledAll(i0) == \A k \in 1..N : pc[k] = "returned"
\* await asyncio.gather(*tasks, return_exceptions=True) is over
SettledFirst(i0) == \E k \in Batch(i0) : pc[k] = "returned"
Settled(i0) == \A k \in Batch(i0) : pc[k] = "returned"

RECURSIVE CollectFrom(_, _, _)
CollectFrom(procd, k, last) ==
    IF k > last THEN procd
    ELSE CollectFrom(IF result[k] = "speaker" THEN Append(procd, k) ELSE procd,
                     k + 1, last)

\* the results of speakers k..last whose lookup hit (or missed), in list order
RECURSIVE CollectWhere(_, _, _, _)
CollectWhere(procd, k, last, hit) ==
    IF k > last THEN procd
    ELSE CollectWhere(IF result[k] = "speaker" /\ h[k].hit = hit THEN Append(procd, k)
                      ELSE procd,
                      k + 1, last, hit)
\* as Collect, in an order of completion: the speakers served from the cache
\* before those that awaited remote calls
CollectHitsFirst(procd, k, last) ==
    CollectWhere(CollectWhere(procd, k, last, TRUE), k, last, FALSE)

\* as Collect, over every result gathered so far instead of the batch's
CollectAll(procd, k, last) == CollectFrom(procd, 1, last)

\* the loop over batch_results: exceptions are logged, speakers appended
Collect(procd, k, last) == CollectFrom(procd, k, last)

\* as GatherReturns, pausing after the last batch as well
GatherReturnsPausesAfterLast ==
    /\ phase = "gather"
    /\ Settled(i)
    /\ processed' = Collect(processed, i + 1, IF i + batch_size < N THEN i + batch_size ELSE N)
    /\ IF i < N
       THEN phase' = "sleep" /\ output' = output
       ELSE phase' = "done" /\ output' = WriteOutput(processed', speakers)
    /\ UNCHANGED <<hasKey, env_max, columns, file, cache, table, max_speakers, speakers, warned, i,
                   pc, loc, result, faults, h>>

\* gather() returns for the current batch: its results are collected; then the
\* loop sleeps if another batch follows, else _process_speakers returns and
\* process_speaker_list writes the output table.
GatherReturns ==
    /\ phase = "gather"
    /\ Settled(i)
    /\ processed' = Collect(processed, i + 1, IF i + batch_size < N THEN i + batch_size ELSE N)
    /\ IF i + batch_size < N
       THEN phase' = "sleep" /\ output' = output
       ELSE phase' = "done" /\ output' = WriteOutput(processed', speakers)
    /\ UNCHANGED <<hasKey, env_max, columns, file, cache, table, max_speakers, speakers, warned, i,
                   pc, loc, result, faults, h>>

\* asyncio.sleep(1) returns: the loop moves to the next batch and launches it
SleepReturns ==
    /\ phase = "sleep"
    /\ i' = i + batch_size
    /\ pc' = Ready(i')
    /\ phase' = "gather"
    /\ UNCHANGED <<hasKey, env_max, columns, file, cache, table, max_speakers, speakers, warned,
                   loc, result, processed, output, faults, h>>

\* ------------------------------------------------- POST /process-speakers
\* int(max_speakers) on the query parameter: a TypeError for None
IntRaises(q) == q = NoInt

\* the response of the endpoint: the output file once process_speaker_list
\* has returned, status 500 from the except branch when anything raised
Response ==
    CASE phase = "done" -> "file"
      [] phase \in {"failed", "rejected"} -> "500"
      [] OTHER -> "pending"

\* The endpoint process_speakers on the upload of a .csv file tb with query
\* parameter q, up to the first await of process_speaker_list: the upload is
\* saved, then process_speaker_list is called with int(q); when int() raises
\* the call is never made and the except branch answers with status 500.
ProcessSpeakersEndpoint(tb, cols, q) ==
    /\ phase = "idle"
    /\ IF IntRaises(q)
       THEN /\ phase' = "rejected"
            /\ table' = tb
            /\ UNCHANGED <<hasKey, env_max, columns, file, cache, max_speakers, speakers,
                           warned, i, pc, loc, result, processed, output, faults, h>>
       ELSE ProcessSpeakerList(tb, cols, q)

\* the max_speakers arguments a run is started with
ArgLimits == {NoInt} \cup {<<n>> : n \in 0..MaxLimit}

Next ==
    \/ /\ phase = "idle"
       /\ \E tb \in Tables, cols \in ColumnSets, ms \in ArgLimits :
             ProcessSpeakerList(tb, cols, ms)
    \/ \E k \in 1..N : TaskStart(k)
    \/ \E k \in 1..N, ok \in BOOLEAN : ResearchReturns(k, ok)
    \/ \E k \in 1..N, resp \in Responses, w \in SaveOutcomes : ClassifyReturns(k, resp, w)
    \/ \E k \in 1..N, ok \in BOOLEAN : SubjectReturns(k, ok)
    \/ \E k \in 1..N, ok \in BOOLEAN : BodyReturns(k, ok)
    \/ GatherReturns
    \/ SleepReturns

Spec == Init /\ [][Next]_vars

\* The event loop runs every task that can run, and every remote call that is
\* awaited returns or fails in the end; when a run is started is up to the
\* caller.
Fairness ==
    /\ WF_vars(\E k \in 1..N : TaskStart(k))
    /\ WF_vars(\E k \in 1..N, ok \in BOOLEAN : ResearchReturns(k, ok))
    /\ WF_vars(\E k \in 1..N, resp \in Responses, w \in SaveOutcomes :
                 ClassifyReturns(k, resp, w))
    /\ WF_vars(\E k \in 1..N, ok \in BOOLEAN : SubjectReturns(k, ok))
    /\ WF_vars(\E k \in 1..N, ok \in BOOLEAN : BodyReturns(k, ok))
    /\ WF_vars(GatherReturns)
    /\ WF_vars(SleepReturns)
LiveSpec == Spec /\ Fairness

\* The requests to the endpoint: an uploaded table and the max_speakers query
\* parameter, omitted (NoInt) or an integer.
EndpointNext ==
    \E tb \in Tables, cols \in ColumnSets, q \in ArgLimits :
        ProcessSpeakersEndpoint(tb, cols, q)
EndpointSpec == Init /\ [][EndpointNext]_vars

\* ===================================================================== claims
Started(k) == pc[k] \notin {"unstarted", "ready"}
Classified(k) == h[k].ret # None
RemoteCalls(k) == h[k].calls \cap {"research", "classify"}
Done == phase = "done"

\* C1: classify_company always returns one of the five categories, whatever
\* the research call, the classification call and the cache write do, with or
\* without a client: no task gets past it without such a category, and no
\* task fails before it has returned.
C1_ClassifyTotal ==
    \A k \in 1..N :
        /\ h[k].ret \in Categories \cup {None}
        /\ pc[k] \in {"gen", "returned"} => h[k].ret \in Categories
        /\ h[k].raised => h[k].ret \in Categories /\ h[k].gen

\* a classification call raised and the cache write after it failed, with a
\* client; the call still returned OTHER
C1_Witness ==
    /\ hasKey
    /\ \E k \in 1..N : h[k].cls_raised /\ h[k].ret = "OTHER" /\ ~h[k].hit
    /\ faults = 2
    /\ file.state # "object" \/ file.data # cache

\* C2: a classify_company call that starts after a call with the same name has
\* returned gets the category that call returned and makes no remote call.
C2_Idempotent ==
    \A k \in 1..N :
        Classified(k) =>
            \A p \in h[k].prior :
                p.name = speakers[k].company =>
                    h[k].ret = p.category /\ RemoteCalls(k) = {}

\* C3: a classify_company call that starts after a call with a name equal to
\* its own after trimming and case folding has returned gets the category that
\* call returned and makes no remote call.
C3_NormalizedHit ==
    \A k \in 1..N :
        Classified(k) =>
            \A p \in h[k].prior : h[k].ret = p.category /\ RemoteCalls(k) = {}

\* C4: a speaker classified COMPETITOR never reaches the e-mail generator and
\* carries 'N/A - Competitor' as subject and as body.
C4_CompetitorExcluded ==
    \A k \in 1..N :
        h[k].ret = "COMPETITOR" =>
            /\ ~h[k].gen
            /\ h[k].calls \cap {"subject", "body"} = {}
            /\ speakers[k].company_category = "COMPETITOR"
            /\ speakers[k].email_subject = NASubject
            /\ speakers[k].email_body = NABody
            /\ pc[k] = "returned"

\* a competitor found by the remote classification and one found in the cache,
\* both in the written output
C4_Witness ==
    /\ Done
    /\ \E k \in 1..N : h[k].ret = "COMPETITOR" /\ ~h[k].hit
    /\ \E k \in 1..N : h[k].ret = "COMPETITOR" /\ h[k].hit
    /\ \E n \in 1..Len(output.rows) : output.rows[n].subject = NASubject

\* the rows of the output table written for speaker k
RowsOf(k) == {n \in 1..Len(output.rows) : /\ n <= Len(processed)
                                          /\ processed[n] = k}
\* every speaker ended in one terminal state and has one row in the output
AllComplete == \A j \in 1..N : /\ pc[j] = "returned"
                               /\ Cardinality(h[j].term) = 1
                               /\ Cardinality(RowsOf(j)) = 1

\* C5 as stated: when the classification call of a speaker raises, every
\* other speaker completes and appears in the output, and the failing speaker
\* appears with the error sentinels.
C5_FailingSpeakerSentinels ==
    Done =>
        \A k \in 1..N :
            h[k].cls_raised =>
                /\ AllComplete
                /\ \A n \in RowsOf(k) : /\ output.rows[n].subject = ErrSubject
                                        /\ output.rows[n].body = ErrBody

\* C5 amended: when the classification call of a speaker raises, every other
\* speaker completes and appears in the output; the failing speaker appears
\* with category Other, with the error sentinels only when no generation
\* client is configured, and with generated or fallback content otherwise.
C5_FailingSpeakerDegrades ==
    Done =>
        \A k \in 1..N :
            h[k].cls_raised =>
                /\ AllComplete
                /\ h[k].ret = "OTHER"
                /\ \A n \in RowsOf(k) :
                     LET row == output.rows[n]
                         fallback == FallbackEmail(Request(speakers[k], "OTHER"))
                     IN /\ row.category = Value("OTHER")
                        /\ IF hasKey
                           THEN /\ row.subject \in {GenSubject, fallback.subject}
                                /\ row.body \in {GenBody, fallback.body}
                           ELSE /\ row.subject = ErrSubject
                                /\ row.body = ErrBody

\* with a client, the classification call of a first-batch speaker raised, a
\* speaker of the second batch was processed, and the output is written
C5_Witness ==
    /\ Done
    /\ hasKey
    /\ N > batch_size
    /\ \E k \in 1..N : /\ k <= batch_size
                        /\ h[k].cls_raised
                        /\ h[k].term = {"EmailGenerated"}

\* C6: an exception in a speaker's unit of work leaves that speaker
\* ErroredOut, with 'Error generating email' as subject and 'Error generating
\* email content' as body, handed to gather() as a result; the batch loop
\* goes on, and at the end every speaker has ended and has its row.
C6_FailureContained ==
    /\ \A k \in 1..N :
         h[k].raised =>
             /\ pc[k] = "returned"
             /\ result[k] = "speaker"
             /\ h[k].term = {"ErroredOut"}
             /\ speakers[k].email_subject = ErrSubject
             /\ speakers[k].email_body = ErrBody
    /\ phase \in {"gather", "sleep"} => ENABLED Next
    /\ Done => AllComplete

\* a run without a client is over: speakers of both batches errored out, next
\* to siblings that were skipped as competitors
C6_Witness ==
    /\ Done
    /\ \E k \in 1..N : k <= batch_size /\ h[k].raised
    /\ \E k \in 1..N : k > batch_size /\ h[k].raised
    /\ \E k \in 1..N : k <= batch_size /\ h[k].term = {"SkippedAsCompetitor"}

\* C7: the output table has exactly one row for every speaker of the
\* deduplicated, truncated input list, and no other row.
C7_OneRowPerSpeaker ==
    Done =>
        LET list == Truncate(ReadCsvFile(table), EffectiveLimit(max_speakers, env_max))
            Same(row, sp) == /\ row.name = sp.name
                             /\ row.title = sp.title
                             /\ row.company = sp.company
        IN /\ output.written
           /\ Len(output.rows) = Len(list)
           /\ \A m \in 1..Len(list) :
                Cardinality({n \in 1..Len(output.rows) : Same(output.rows[n], list[m])}) = 1

\* a table with a repeated row, cut by the limit, was processed in two batches
\* and is written, with errored-out speakers among its rows
C7_Witness ==
    /\ Done
    /\ warned
    /\ Len(DropDuplicates(table)) < Len(table)
    /\ Len(output.rows) > batch_size
    /\ Len(output.rows) < Len(DropDuplicates(table))
    /\ \E k \in 1..N : h[k].term = {"ErroredOut"}

\* the batch of speaker k, counted from 0
BatchOf(k) == (k - 1) \div batch_size

\* C8: no task of a batch exists before every speaker of every earlier batch
\* has ended its unit of work.
C8_BatchesSequential ==
    \A k \in 1..N :
        pc[k] # "unstarted" =>
            \A j \in 1..N : BatchOf(j) < BatchOf(k) => pc[j] = "returned"

\* a speaker of the second batch is at work after a first batch in which one
\* speaker errored out and another was skipped
C8_Witness ==
    /\ phase = "gather"
    /\ \E k \in 1..N : BatchOf(k) = 1 /\ Started(k)
    /\ \E j \in 1..N : BatchOf(j) = 0 /\ h[j].term = {"ErroredOut"}
    /\ \E j \in 1..N : BatchOf(j) = 0 /\ h[j].term = {"SkippedAsCompetitor"}

TerminalStates == {"SkippedAsCompetitor", "EmailGenerated", "ErroredOut"}
\* what holds of speaker k's unit of work in every state
Lifecycle(k) ==
    /\ h[k].term \subseteq TerminalStates
    /\ Cardinality(h[k].term) <= 1
    /\ h[k].term # {} <=> pc[k] = "returned"
    /\ h[k].term # {} => Classified(k)
    /\ h[k].gen => Classified(k)
    /\ Classified(k) <=> speakers[k].company_category # None
    /\ h[k].term = {"SkippedAsCompetitor"} <=> h[k].ret = "COMPETITOR"
    /\ h[k].term = {"EmailGenerated"} => h[k].gen /\ ~h[k].raised
    /\ h[k].term = {"ErroredOut"} <=> h[k].raised
\* a speaker in a terminal state stays as it is
TerminalStable ==
    \A k \in 1..N :
        h[k].term # {} =>
            /\ Len(speakers') = N
            /\ speakers'[k] = speakers[k]
            /\ h'[k].term = h[k].term
            /\ pc'[k] = "returned"

\* C9: every speaker goes from Unclassified to Classified to exactly one of
\* SkippedAsCompetitor, EmailGenerated and ErroredOut; the generator is only
\* called for a classified speaker; a speaker in a terminal state never
\* leaves it.
C9_SpeakerLifecycle ==
    /\ [](\A k \in 1..N : Lifecycle(k))
    /\ [][TerminalStable]_vars

\* a written run in which one speaker got an e-mail and another was skipped
C9_Witness ==
    /\ Done
    /\ \E k \in 1..N : h[k].term = {"EmailGenerated"}
    /\ \E k \in 1..N : h[k].term = {"SkippedAsCompetitor"}

\* C10: with more speakers than the limit, exactly the first limit speakers
\* are processed and the truncation warning is logged; with at most limit
\* speakers all are processed and no warning is logged; the limit is the
\* max_speakers argument, or Config.MAX_SPEAKERS when it is omitted.
C10_LimitEnforced ==
    phase \notin {"idle", "failed"} =>
        LET read == ReadCsvFile(table)
            limit == IF max_speakers # NoInt THEN max_speakers[1]
                     ELSE IF env_max # NoInt THEN env_max[1] ELSE DefaultMaxSpeakers
            kept == IF Len(read) > limit THEN limit ELSE Len(read)
            Same(a, b) == a.name = b.name /\ a.title = b.title /\ a.company = b.company
        IN /\ limit >= 0
           /\ warned <=> Len(read) > limit
           /\ N = kept
           /\ \A k \in 1..N : Same(speakers[k], read[k])
           /\ Done => /\ Len(output.rows) = kept
                      /\ \A n \in 1..kept : Same(output.rows[n], read[n])

\* a run with an explicit limit below the number of speakers read is written
C10_Witness ==
    /\ Done
    /\ warned
    /\ max_speakers # NoInt
    /\ N > 0
    /\ N = max_speakers[1]
    /\ Len(ReadCsvFile(table)) > N

\* the identity of a speaker: name, title and company, trimmed and case-folded
Identity(sp) == <<Normalize(sp.name), Normalize(sp.title), Normalize(sp.company)>>

\* C11: the input reader keeps of the rows with the same identity only the
\* first, so no two speakers it returns have the same identity, and the three
\* rows ("A","T","C"), ("a"," t ","c"), ("B","T2","C2") give 2 speakers.
C11_Deduplicated ==
    phase \in {"gather", "sleep", "done"} =>
        LET read == ReadCsvFile(table)
        IN /\ \A m, n \in 1..Len(read) : m < n => Identity(read[m]) # Identity(read[n])
           /\ table = DedupTable => Len(read) = 2

\* a store of a cache entry has completed
StoreCompleted == \E k \in 1..N : Classified(k) /\ ~h[k].hit
\* the entries of the in-memory mapping that the cache file does not hold
NotDurable ==
    {key \in DOMAIN cache : \/ file.state # "object"
                            \/ key \notin DOMAIN file.data
                            \/ file.data[key] # cache[key]}

\* C12: once a store of a cache entry has completed, the cache file holds
\* exactly the in-memory mapping; at no point does the file lack more than the
\* one entry being stored.
C12_WriteThrough ==
    /\ StoreCompleted => file = Object(cache)
    /\ Cardinality(NotDurable) <= 1

\* C13: without a client generate_email raises to its caller: no generation
\* call is issued and the speaker gets neither generated nor fallback content,
\* only what the caller's except branch sets.
C13_GeneratorRaisesWithoutClient ==
    ~hasKey =>
        \A k \in 1..N :
            h[k].gen =>
                /\ h[k].raised
                /\ h[k].calls \cap {"subject", "body"} = {}
                /\ pc[k] = "returned"
                /\ speakers[k].email_subject = ErrSubject
                /\ speakers[k].email_body = ErrBody

\* without a client the generator was called for a speaker and raised
C13_Witness ==
    /\ ~hasKey
    /\ \E k \in 1..N : h[k].gen /\ h[k].raised /\ h[k].ret = "OTHER"

\* C14: with a client generate_email never raises: a failed subject call gives
\* the fallback subject, a failed body call the fallback body, each built
\* from the request alone and each independently of the other part, and the
\* speaker ends EmailGenerated.
C14_GenerationFallsBack ==
    hasKey =>
        \A k \in 1..N :
            /\ ~h[k].raised
            /\ h[k].failed \subseteq {"subject", "body"}
            /\ h[k].gen /\ pc[k] = "returned" => h[k].term = {"EmailGenerated"}
            /\ h[k].term = {"EmailGenerated"} =>
                 LET fallback == FallbackEmail(Request(speakers[k], h[k].ret))
                 IN /\ speakers[k].email_subject =
                         IF "subject" \in h[k].failed THEN fallback.subject
                         ELSE GenSubject
                    /\ speakers[k].email_body =
                         IF "body" \in h[k].failed THEN fallback.body ELSE GenBody
                    /\ speakers[k].company_category = h[k].ret

\* the subject call of a speaker failed and its body call did not
C14_Witness ==
    /\ hasKey
    /\ \E k \in 1..N : /\ h[k].term = {"EmailGenerated"}
                       /\ h[k].failed = {"subject"}
                       /\ speakers[k].email_body = GenBody

\* C15: for an input table without a name, title or company column
\* process_speaker_list raises at once: no task is created and no remote call
\* made, nothing is processed, cache and cache file are as loaded, and no
\* output table is written; nothing follows.
C15_SchemaFailure ==
    /\ phase \notin {"idle", "failed"} => columns = RequiredColumns
    /\ phase = "failed" =>
         /\ columns # RequiredColumns
         /\ speakers = <<>> /\ pc = <<>> /\ h = <<>>
         /\ processed = <<>>
         /\ output = Unwritten
         /\ cache = LoadCache(file)
         /\ file \in CacheFiles
         /\ faults = 0
         /\ ~ENABLED Next

\* a run with a client on two rows without a company column has raised
C15_Witness ==
    /\ phase = "failed"
    /\ hasKey
    /\ Len(table) = 2
    /\ columns = {"name", "title"}

\* C16: without an API key process_speaker_list still completes, and the
\* output table holds every speaker with the category classify_company
\* returned for its company (the cached one for a cached company) and without
\* generated e-mail content.
C16_ClassificationOnly ==
    ~hasKey /\ Done =>
        /\ AllComplete
        /\ \A k \in 1..N :
             \A n \in RowsOf(k) :
                /\ output.rows[n].category = Value(h[k].ret)
                /\ h[k].hit =>
                     output.rows[n].category = cache[Normalize(speakers[k].company)]
                /\ output.rows[n].subject \in {NASubject, ErrSubject}
                /\ output.rows[n].body \in {NABody, ErrBody}

\* C17: a run of process_speaker_list on a valid input ends, whatever remote
\* calls fail: every speaker of the truncated list reaches a terminal state
\* and the output table is written.
C17_Terminates ==
    phase \in {"gather", "sleep"} ~>
        /\ Done
        /\ output.written
        /\ \A k \in 1..N : pc[k] = "returned" /\ Cardinality(h[k].term) = 1

\* a run over two batches has ended after a raising classification call and
\* a failed generation call
C17_Witness ==
    /\ Done
    /\ output.written
    /\ N > batch_size
    /\ \E k \in 1..N : h[k].cls_raised
    /\ \E k \in 1..N : h[k].failed # {}

\* what holds of a classify_company call whose lookup found a value that is
\* the label of no category
DriftedIsMiss(k) ==
    h[k].drifted =>
        /\ ~h[k].hit
        /\ Started(k) /\ hasKey => "research" \in h[k].calls
        /\ Classified(k) =>
             /\ hasKey => RemoteCalls(k) = {"research", "classify"}
             /\ ~Drifted(cache, speakers[k].company)
\* the return of such a call leaves the category it returns in the entry
DriftedOverwritten ==
    \A k \in 1..N :
        h[k].drifted /\ ~Classified(k) /\ h'[k].ret # None =>
            cache'[Normalize(speakers[k].company)] = Value(h'[k].ret)

\* C18: a cached value that is the label of no category is a cache miss:
\* classify_company goes through the research and classification steps and
\* overwrites the entry with the label of the category it returns.
C18_InvalidEntryIsMiss ==
    /\ [](\A k \in 1..N : DriftedIsMiss(k))
    /\ [][DriftedOverwritten]_vars

\* with a client, a call that found such a value has returned BUILDER after
\* both remote calls, and the entry holds 'Builder'
C18_Witness ==
    /\ hasKey
    /\ \E k \in 1..N : /\ h[k].drifted
                       /\ h[k].ret = "BUILDER"
                       /\ RemoteCalls(k) = {"research", "classify"}
                       /\ cache[Normalize(speakers[k].company)] = Value("BUILDER")

\* C19: loading an unparsable cache file gives the empty cache and does not
\* stop anything: a run can start, its tasks go on, and until an entry is
\* stored every lookup is a miss.
C19_MalformedLoadsEmpty ==
    file.state = "malformed" /\ ~StoreCompleted =>
        /\ cache = EmptyMap
        /\ \A name \in {Ab, abS, AB, Dr} : GetCachedClassification(cache, name) = None
        /\ \A k \in 1..N : ~h[k].hit
        /\ phase \in {"idle", "gather", "sleep"} => ENABLED Next

\* started on an unparsable cache file, a run with a client has a speaker
\* whose lookup missed and whose research call is awaited
C19_Witness ==
    /\ file.state = "malformed"
    /\ hasKey
    /\ phase = "gather"
    /\ ~StoreCompleted
    /\ \E k \in 1..N : pc[k] = "research" /\ speakers[k].company = Dr

\* C20: on an input table without rows process_speaker_list creates no task
\* and makes no remote call, writes an output table without rows, and does
\* not raise.
C20_EmptyInput ==
    phase # "idle" /\ table = <<>> /\ columns = RequiredColumns =>
        /\ phase = "done"
        /\ speakers = <<>> /\ pc = <<>> /\ h = <<>>
        /\ processed = <<>>
        /\ output.written
        /\ output.rows = <<>>
        /\ ~warned
        /\ faults = 0
        /\ cache = LoadCache(file)

\* a run with a client on a table without rows has ended
C20_Witness ==
    /\ Done
    /\ hasKey
    /\ table = <<>>
    /\ columns = RequiredColumns
    /\ output.written

\* task k is inside classify_company between its cache lookup, which missed,
\* and its cache store
InWindow(k) == pc[k] \in {"research", "classify"}

\* C21: between the cache lookup and the cache store of one classify_company
\* call no other task looks up or stores the same key: no two tasks are
\* between lookup and store for the same normalized name at the same time.
C21_MutuallyExclusive ==
    \A j, k \in 1..N :
        j # k /\ InWindow(j) /\ InWindow(k) =>
            Normalize(speakers[j].company) # Normalize(speakers[k].company)

\* C22: once the cache file holds a complete version, every later state of
\* the file is a complete version: no rewrite leaves an empty or partially
\* written file behind.
C22_AtomicRewrite == [][file.state = "object" => file'.state = "object"]_vars

\* in this step the classify_company call of task k returns after a miss
ReturnsAfterMiss(k) == ~Classified(k) /\ h'[k].ret # None /\ ~h'[k].hit
\* a step changes the cache only by the store of a call that returns in it,
\* and that store leaves the label of the category it returns in the entry of
\* the call's normalized name and every other entry as it was
LastWriteWins ==
    /\ \A k \in 1..N :
         ReturnsAfterMiss(k) =>
             LET key == Normalize(speakers[k].company)
             IN /\ key \in DOMAIN cache'
                /\ cache'[key] = Value(h'[k].ret)
                /\ DOMAIN cache' = DOMAIN cache \cup {key}
                /\ \A other \in DOMAIN cache \ {key} : cache'[other] = cache[other]
    /\ cache' # cache => \E k \in 1..N : ReturnsAfterMiss(k)
\* no two entries of the cache are for the same normalized name
OneEntryPerName ==
    \A a, b \in DOMAIN cache : Normalize(a) = Normalize(b) => a = b

\* C23: the cache holds at most one entry per normalized company name, and
\* the value of an entry is the category of the store for that name that
\* completed last, also for speakers of one batch that share a company and
\* each complete a classification of their own.
C23_LastWriteWins ==
    /\ [](OneEntryPerName)
    /\ [][LastWriteWins]_vars

\* two speakers of one batch with the same company each missed and each
\* returned a category of their own; the entry holds the label of one of them
C23_Witness ==
    /\ hasKey
    /\ \E j, k \in 1..N :
         /\ j # k
         /\ BatchOf(j) = BatchOf(k)
         /\ Normalize(speakers[j].company) = Normalize(speakers[k].company)
         /\ Classified(j) /\ ~h[j].hit
         /\ Classified(k) /\ ~h[k].hit
         /\ h[j].ret = "BUILDER"
         /\ h[k].ret = "OTHER"
         /\ cache[Normalize(speakers[k].company)] = Value("OTHER")

\* the speakers in flight: their task exists and has not returned
InFlight == {k \in 1..N : pc[k] \in {"ready", "research", "classify", "gen"}}

\* C24: at most 5 speakers are in flight at any moment, and all of them are
\* in the same batch of consecutive positions of the truncated list, the
\* batch at the current offset.
C24_BoundedFanOut ==
    /\ Cardinality(InFlight) <= 5
    /\ \A j, k \in InFlight : BatchOf(j) = BatchOf(k)
    /\ \A k \in InFlight : i < k /\ k <= i + batch_size
    /\ i % batch_size = 0

\* with a client, the one speaker of a last batch that is not full is in
\* flight, awaiting its generation calls, after a full first batch
C24_Witness ==
    /\ hasKey
    /\ phase = "gather"
    /\ i = batch_size
    /\ N = batch_size + 1
    /\ InFlight = {batch_size + 1}
    /\ pc[batch_size + 1] = "gen"
    /\ \A k \in 1..batch_size : pc[k] = "returned"

\* a field of a speaker that has been set keeps its value, and a speaker in a
\* terminal state keeps all of its fields
FieldsStable ==
    \A k \in 1..N :
        /\ speakers[k].company_category # None =>
               speakers'[k].company_category = speakers[k].company_category
        /\ speakers[k].email_subject # None =>
               speakers'[k].email_subject = speakers[k].email_subject
        /\ speakers[k].email_body # NoBody =>
               speakers'[k].email_body = speakers[k].email_body
        /\ h[k].term # {} => speakers'[k] = speakers[k]

\* C25: a speaker's company_category is assigned once, the category that
\* classify_company returned for it, and its email_subject and email_body at
\* most once; no field changes once it is set or the speaker is in a terminal
\* state.
C25_AssignedOnce ==
    /\ [](\A k \in 1..N :
            Classified(k) => speakers[k].company_category = h[k].ret)
    /\ [][FieldsStable]_vars

\* the research call of task k has failed and its structured-classification
\* call is awaited
ResearchFailed(k) == pc[k] = "classify" /\ loc[k].company_info.kind = "limited"

\* a structured-classification response that names BUILDER
BuilderResponse ==
    [kind |-> "json", category |-> <<"B","u","i","l","d","e","r">>, conf_ok |-> TRUE]
\* what holds of task k's classification in every state
ClassifyAfterResearch(k) ==
    /\ "research" \in h[k].calls /\ pc[k] # "research" => "classify" \in h[k].calls
    /\ pc[k] = "classify" =>
         /\ ~Classified(k)
         /\ loc[k].company_info \in {Researched(speakers[k].company),
                                     LimitedInfo(speakers[k].company)}
    /\ ResearchFailed(k) /\ AllStarted =>
         /\ loc[k].company_info = LimitedInfo(speakers[k].company)
         /\ BuilderResponse \in Responses
         /\ ENABLED (/\ ClassifyReturns(k, BuilderResponse, "ok")
                     /\ h'[k].ret = "BUILDER")
\* a call whose research failed returns what the response to its
\* structured-classification call yields
ReturnsWhatCallYields ==
    \A k \in 1..N :
        ResearchFailed(k) /\ h'[k].ret # None =>
            \E resp \in Responses, w \in SaveOutcomes :
                /\ ClassifyReturns(k, resp, w)
                /\ h'[k].ret = ClassifyWithResearch(resp)
                /\ h'[k].cls_raised = IsFault(resp)

\* C26: a failed research call does not end the classification: the
\* structured-classification call is issued all the same, for the speaker's
\* own company name and with the limited-information context, and
\* classify_company returns the category that the response to that call
\* yields, BUILDER for a response naming it.
C26_ResearchIsolated ==
    /\ [](\A k \in 1..N : ClassifyAfterResearch(k))
    /\ [][ReturnsWhatCallYields]_vars

\* with a client, the research call for a speaker has failed and the
\* structured-classification call for its company is awaited, with the
\* limited-information context
C26_Witness ==
    /\ hasKey
    /\ \E k \in 1..N : /\ ResearchFailed(k)
                       /\ AllStarted
                       /\ h[k].calls = {"research", "classify"}
                       /\ loc[k].company_info = LimitedInfo(Ab)

\* when a classify_company call returns after a miss, a lookup of the name it
\* was given finds the category it returns, and the only entry the step can
\* have added is the one of that name, normalized
StoredAtReturn ==
    \A k \in 1..N :
        ReturnsAfterMiss(k) =>
            /\ Normalize(speakers[k].company) \in DOMAIN cache'
            /\ GetCachedClassification(cache', speakers[k].company) = h'[k].ret
            /\ DOMAIN cache' \ DOMAIN cache \subseteq {Normalize(speakers[k].company)}

\* C27: on a cache miss the store comes before the return: when
\* classify_company(name) returns category c the cache maps the normalized
\* name it was called with to the label of c, and no entry is ever made under
\* another key.
C27_StoredBeforeReturn ==
    /\ [][StoredAtReturn]_vars
    /\ [](\A k \in 1..N :
            Classified(k) /\ ~h[k].hit =>
                Normalize(speakers[k].company) \in DOMAIN cache)

\* with a client, a call for "Ab" missed, made both remote calls and returned
\* COMPETITOR; the cache maps "ab" to 'Competitor'
C27_Witness ==
    /\ hasKey
    /\ \E k \in 1..N : /\ speakers[k].company = Ab
                       /\ ~h[k].hit
                       /\ RemoteCalls(k) = {"research", "classify"}
                       /\ h[k].ret = "COMPETITOR"
                       /\ <<"a", "b">> \in DOMAIN cache
                       /\ cache[<<"a", "b">>] = Value("COMPETITOR")
                       /\ Ab \notin DOMAIN cache

\* the text that generation call part of task k has delivered, if any
Delivered(k, part) ==
    IF part = "subject" THEN loc[k].subject # None ELSE loc[k].body # NoBody

\* what holds of a task that awaits generation
BothIssued(k) ==
    /\ {"subject", "body"} \subseteq h[k].calls
    /\ loc[k].inflight # {}
    /\ \A part \in {"subject", "body"} :
         /\ part \in loc[k].inflight <=> ~Delivered(k, part)
         /\ part \in loc[k].inflight /\ AllStarted =>
              ENABLED PartReturns(k, part, TRUE)
\* the step in which a task calls generate_email puts both calls in flight
IssuedTogether ==
    \A k \in 1..N :
        pc[k] # "gen" /\ pc'[k] = "gen" =>
            /\ loc'[k].inflight = {"subject", "body"}
            /\ h[k].calls \cap {"subject", "body"} = {}
            /\ {"subject", "body"} \subseteq h'[k].calls

\* C28: generate_email issues the subject call and the body call together:
\* both are in flight before either has returned; while a speaker awaits
\* generation each call is in flight or has delivered its text, and each call
\* in flight can return whether or not the other has.
C28_GenerationConcurrent ==
    /\ [](\A k \in 1..N : pc[k] = "gen" => BothIssued(k))
    /\ [][IssuedTogether]_vars

\* the body call of a speaker has delivered its text while the subject call
\* of the same speaker is still in flight
C28_Witness ==
    \E k \in 1..N : /\ pc[k] = "gen"
                    /\ loc[k].inflight = {"subject"}
                    /\ loc[k].body = GenBody
                    /\ loc[k].subject = None

\* the batches of the run
NumBatches == (N + batch_size - 1) \div batch_size
\* the pauses begun so far: the offset moves on by one batch after each pause
PausesBegun == (i \div batch_size) + (IF phase = "sleep" THEN 1 ELSE 0)

\* C29: the loop pauses after a batch has settled only when another batch
\* follows, and before any task of that batch exists: a run of k batches
\* makes k-1 pauses, none for no batch or one.
C29_PauseBetweenBatches ==
    /\ phase = "sleep" =>
         /\ i + batch_size < N
         /\ \A k \in 1..N : k <= i + batch_size => pc[k] = "returned"
         /\ \A k \in 1..N : k > i + batch_size => pc[k] = "unstarted"
    /\ phase \in {"gather", "sleep"} => PausesBegun < NumBatches
    /\ phase = "gather" => \A k \in InFlight : BatchOf(k) = PausesBegun
    /\ Done => PausesBegun = (IF N = 0 THEN 0 ELSE NumBatches - 1)

\* a run of two full batches has ended after one pause
C29_Witness ==
    /\ Done
    /\ N = 2 * batch_size
    /\ NumBatches = 2
    /\ PausesBegun = 1
    /\ output.written

\* the classify_company call of task k missed, its structured-classification
\* call raised (or there was no client to make it), and it returned OTHER
DefaultedToOther(k) ==
    Classified(k) /\ ~h[k].hit /\ h[k].cls_raised /\ h[k].ret = "OTHER"
\* the calls of later batches for the name of speaker k return OTHER from the
\* cache, without a remote call
LaterCallsGetOther(k) ==
    \A j \in 1..N :
        /\ BatchOf(j) > BatchOf(k)
        /\ Normalize(speakers[j].company) = Normalize(speakers[k].company)
        /\ Classified(j)
        => h[j].hit /\ h[j].ret = "OTHER" /\ RemoteCalls(j) = {}
\* a classifier that loads the cache file finds OTHER for the name of speaker k
PersistedAsOther(k) ==
    GetCachedClassification(LoadCache(file), speakers[k].company) = "OTHER"

\* C30: the OTHER that classify_company returns when the structured
\* classification call fails, or when there is no client, is stored and
\* persisted: every later call for that normalized name returns OTHER
\* without a remote call, in this run and in a run that loads the file.
C30_DefaultCached ==
    \A k \in 1..N :
        DefaultedToOther(k) => LaterCallsGetOther(k) /\ PersistedAsOther(k)

\* C31: the rows of the output table are in the order of the deduplicated,
\* truncated speaker list, whatever the order in which the tasks of a batch
\* complete: speakers are collected in list order, and row n of the table is
\* the row of speaker n.
C31_InputOrder ==
    /\ \A m, n \in 1..Len(processed) : m < n => processed[m] < processed[n]
    /\ Done =>
         LET list == Truncate(ReadCsvFile(table), EffectiveLimit(max_speakers, env_max))
         IN /\ processed = [n \in 1..N |-> n]
            /\ Len(output.rows) = Len(list)
            /\ \A n \in 1..Len(list) : /\ output.rows[n].name = list[n].name
                                       /\ output.rows[n].title = list[n].title
                                       /\ output.rows[n].company = list[n].company
                                       /\ output.rows[n] = OutputRow(speakers[n])

\* a written run with a client in which the third speaker, served from the
\* cache, completed before the first, which awaited remote calls; the first
\* row is the first speaker's
C31_Witness ==
    /\ Done
    /\ hasKey
    /\ N >= 3
    /\ RemoteCalls(1) = {"research", "classify"}
    /\ h[1].term = {"EmailGenerated"}
    /\ h[3].hit
    /\ h[3].term = {"SkippedAsCompetitor"}
    /\ output.rows[1].name = speakers[1].name
    /\ output.rows[3].name = speakers[3].name
    /\ output.rows[1].name # output.rows[3].name

WriteFailureSwallowed ==
    \A k \in 1..N :
        ReturnsAfterMiss(k) =>
            LET key == Normalize(speakers[k].company)
            IN /\ h'[k].ret \in Categories
               /\ key \in DOMAIN cache'
               /\ cache'[key] = Value(h'[k].ret)
               /\ pc'[k] \in {"gen", "returned"}
               /\ file' \in {Object(cache'), file, Malformed}
\* a classification call that returns with its file write done leaves every
\* in-memory entry in the file; one whose write fails or is cut short has
\* stored its category in memory all the same
RewriteIsFull ==
    \A k \in 1..N :
      pc[k] = "classify" /\ pc'[k] # "classify" =>
      \A resp \in Responses :
        ClassifyWithResearch(resp) = h'[k].ret =>
          /\ ClassifyReturns(k, resp, "ok") =>
                 /\ file' = Object(cache')
                 /\ \A key \in DOMAIN cache :
                      key \in DOMAIN file'.data /\ file'.data[key] = cache'[key]
          /\ ClassifyReturns(k, resp, "fail") \/ ClassifyReturns(k, resp, "partial") =>
                 /\ file' \in {file, Malformed}
                 /\ cache' = CacheStore(cache, speakers[k].company, h'[k].ret)
\* a lookup in a later batch of a name that an earlier call stored is a hit,
\* whatever has become of the file
LaterLookupsHit ==
    \A j, k \in 1..N :
        /\ BatchOf(j) > BatchOf(k)
        /\ Normalize(speakers[j].company) = Normalize(speakers[k].company)
        /\ Classified(k) /\ ~h[k].hit
        /\ Started(j)
        => h[j].hit /\ RemoteCalls(j) = {}

\* C33: a failed write of the cache file is swallowed: classify_company
\* returns the category all the same and the entry stays in the in-memory
\* cache, so that later lookups hit; the next store whose write succeeds
\* rewrites the file with every in-memory entry.
C33_WriteFailureSwallowed ==
    /\ [][WriteFailureSwallowed]_vars
    /\ [][RewriteIsFull]_vars
    /\ [](LaterLookupsHit)

\* a run without a client on an empty cache has ended: the write for the
\* first speaker's company failed, the store for the third speaker's company
\* then wrote both entries, and the sixth speaker, of the first one's company,
\* was served from the cache
C33_Witness ==
    /\ ~hasKey
    /\ Done
    /\ faults = 1
    /\ N = batch_size + 1
    /\ ~h[1].hit
    /\ ~h[3].hit
    /\ h[N].hit
    /\ Normalize(speakers[N].company) = Normalize(speakers[1].company)
    /\ DOMAIN cache = {Normalize(speakers[1].company), Normalize(speakers[3].company)}
    /\ Cardinality(DOMAIN cache) = 2
    /\ file = Object(cache)

\* C34: a request to the upload-and-process endpoint that omits max_speakers
\* is passed on to process_speaker_list: the uploaded speakers are processed
\* with the limit Config.MAX_SPEAKERS, and the answer is not an error
\* response.
C34_EndpointPassThrough ==
    phase # "idle" /\ max_speakers = NoInt =>
        /\ Response # "500"
        /\ phase \in {"gather", "sleep", "done"}
        /\ speakers = Truncate(ReadCsvFile(table), ConfigMaxSpeakers(env_max))

====
